---- MODULE Spec2Model ----
(***************************************************************************)
(* vkgram: the long-poll acquisition and dispatch engine of VKgramBot      *)
(* (src/vkgram/bot.py), its Dispatcher, the Handler hierarchy of           *)
(* src/vkgram/handlers.py and the RateLimiter of src/vkgram/utils.py.      *)
(*                                                                         *)
(* Three specifications share this module:                                 *)
(*   SpecRL        RateLimiter.acquire under concurrent callers            *)
(*   SpecBot       run / start / negotiation / poll loop / queue / workers *)
(*   SpecDispatch  Dispatcher.process_update over a registered handler set *)
(* Time is discrete; one Tick is one unit of the event loop's clock.       *)
(***************************************************************************)
EXTENDS Integers, Sequences, FiniteSets, TLC

\* number of tasks calling RateLimiter.acquire concurrently
NCallers == 3

\* largest max_requests a RateLimiter is constructed with
MaxMaxRequests == 2

\* largest period (in clock ticks) a RateLimiter is constructed with
MaxPeriod == 2

\* --------------------------------------------------------------- state

\* RateLimiter (src/vkgram/utils.py)
VARIABLES
    max_requests,   \* RateLimiter.max_requests
    period,         \* RateLimiter.period, in ticks
    requests,       \* RateLimiter.requests, each entry kept as its age now - req_time (capped at period)
    lockOwner,      \* RateLimiter.lock: the caller holding it, NoCaller when free
    lockWaiters,    \* RateLimiter.lock: callers blocked in `async with self.lock`, FIFO
    rlPc,           \* per caller: "idle" | "waiting" | "sleeping"
    nowAge,         \* age of the `now` read at line 20 by the caller inside the lock
    sleepLeft,      \* ticks left of asyncio.sleep(wait_time) at line 30
    returned        \* ages of the most recent returns of acquire() (younger than period)

rlVars == <<max_requests, period, requests, lockOwner, lockWaiters, rlPc,
            nowAge, sleepLeft, returned>>

\* VKgramBot._api_call (src/vkgram/bot.py)
VARIABLES
    apiPc,        \* _api_call: "idle" | "attempt" | "await" | "done"
    apiCaller,    \* who awaits the call: "none" | "setup" | "send"
    apiAttempt,   \* loop variable `attempt` of line 98
    apiLog,       \* what the call did, in order: <<"acquire">>, <<"post">>, <<"resp", outcome>>, <<"sleep", hundredths of a second>>
    apiResult     \* the returned dict: <<>> for {}, else the response

apiVars == <<apiPc, apiCaller, apiAttempt, apiLog, apiResult>>

\* VKgramBot (src/vkgram/bot.py)
VARIABLES
    botPc,         \* run(): "init" | "setup" | "polling" | "stopped" | "raised"
    session,       \* self.session: "none" | "open" | "closed"
    lp_server,     \* self.lp_server
    lp_key,        \* self.lp_key
    lp_ts,         \* self.lp_ts
    pollPc,        \* poll loop: "off" | "fetch" | "await" | "handle" | "backoff" | "stopped"
    fetchReq,      \* <<server, key, ts>> of the latest long-poll GET issued, <<>> before the first
    resp,          \* the long-poll response being handled
    lastKind,      \* kind of the latest long-poll response handled ("none" once the next one arrives)
    lastTs,        \* ts that response carried (None when it had none)
    dropped,       \* how many updates of that response were not enqueued
    pollSleep,     \* duration of the backoff sleep in progress
    consecErrors,  \* consecutive long-poll fetches that raised a transport error
    update_queue,  \* self.update_queue
    workerPc,      \* per worker: "off" | "get" | "busy" | "cancelled" (at queue.get) | "interrupted" (inside process_update)
    workerUpd,     \* per worker: the update it is dispatching
    workerFault,   \* per worker: it is back at queue.get() from a process_update that raised into line 221
    lastFailed,    \* the `failed` code of the response handled since the latest GET (None when it had none)
    negotiations   \* calls of _setup_long_poll so far

botVars == <<botPc, session, lp_server, lp_key, lp_ts, pollPc, fetchReq, resp,
             lastKind, lastTs, dropped, pollSleep, consecErrors, update_queue, workerPc,
             workerUpd, workerFault, lastFailed, negotiations>>

\* Dispatcher (src/vkgram/bot.py)
VARIABLES
    message_handlers,  \* Dispatcher.message_handlers: (handler, filters) in registration order
    event_handlers,    \* Dispatcher.event_handlers: event type -> handlers in registration order
    dPc,               \* process_update: "idle" | "handlers" | "sending" | "done" | "raised"
    dUpdate,           \* the update being processed
    dIdx,              \* position of _process_message's loop in message_handlers
    invoked,           \* message handlers called for this update, in call order
    faulted,           \* positions of the message handlers whose callback raised
    tasks,             \* tasks created for this update by line 246: <<handler, "pending" | "started" | "ok" | "raised">>
    decorated          \* functions that carry a `_handler` attribute set by vkgram.message_handler

dispVars == <<message_handlers, event_handlers, dPc, dUpdate, dIdx, invoked,
              faulted, tasks, decorated>>

\* AndFilter, OrFilter, NotFilter (src/vkgram/filters.py)
VARIABLES
    cKind,      \* the composite whose check is awaited: "and" | "or" | "not" ("none": no check is made)
    cChildren,  \* what the check of each child filter returns, in the order of self.filters
    cResult     \* outcome of the composite's check: "none" before it, then "true" | "false" | "TypeError"

filterVars == <<cKind, cChildren, cResult>>

vars == <<rlVars, apiVars, botVars, dispVars, filterVars>>

\* ------------------------------------------------------------- RateLimiter


Callers == 1..NCallers

NoCaller == 0

Min(a, b) == IF a < b THEN a ELSE b

Max(a, b) == IF a > b THEN a ELSE b

\* every element of s one tick older, ages saturating at cap
Aged(s, cap) == [i \in 1..Len(s) |-> Min(s[i] + 1, cap)]

\* line 23-24: keep the requests with now - req_time < period
Unexpired(s, p) == SelectSeq(s, LAMBDA a : a < p)

\* line 28: wait_time = period - (now - requests[0])
WaitTime(p, s) == p - s[1]

\* the lock after the `async with` block is left without releasing it
KeptLock(c) == c

\* line 19: leaving the `async with self.lock` block releases the lock
ReleasedLock(c) == NoCaller

\* the returns of acquire() still inside the trailing window, newest last;
\* one more than max_requests is all that is ever needed to see an excess
Remember(s, p, m) ==
    LET live == SelectSeq(s, LAMBDA a : a < p)
    IN  IF Len(live) > m + 1 THEN SubSeq(live, Len(live) - m, Len(live)) ELSE live

InitRateLimiter ==
    /\ max_requests \in 1..MaxMaxRequests
    /\ period \in 1..MaxPeriod
    /\ requests = <<>>
    /\ lockOwner = NoCaller
    /\ lockWaiters = <<>>
    /\ rlPc = [c \in Callers |-> "idle"]
    /\ nowAge = 0
    /\ sleepLeft = 0
    /\ returned = <<>>

\* a task calls acquire() and queues on the lock (line 19)
AcquireCall(c) ==
    /\ rlPc[c] = "idle"
    /\ rlPc' = [rlPc EXCEPT ![c] = "waiting"]
    /\ lockWaiters' = Append(lockWaiters, c)
    /\ UNCHANGED <<max_requests, period, requests, lockOwner, nowAge, sleepLeft, returned>>
    /\ UNCHANGED <<apiVars, botVars, dispVars, filterVars>>

\* lines 19-33 up to the first suspension: the head waiter takes the lock,
\* reads now, evicts, and either admits at once or goes to sleep holding the lock
AcquireEnter(c) ==
    /\ rlPc[c] = "waiting"
    /\ lockOwner = NoCaller
    /\ lockWaiters # <<>> /\ Head(lockWaiters) = c
    /\ lockWaiters' = Tail(lockWaiters)
    /\ nowAge' = 0
    /\ LET kept == Unexpired(requests, period)
       IN  IF Len(kept) >= max_requests
           THEN IF WaitTime(period, kept) > 0
                THEN /\ requests' = kept
                     /\ sleepLeft' = WaitTime(period, kept)
                     /\ lockOwner' = c
                     /\ rlPc' = [rlPc EXCEPT ![c] = "sleeping"]
                     /\ UNCHANGED returned
                ELSE /\ requests' = Append(Tail(kept), 0)
                     /\ sleepLeft' = 0
                     /\ lockOwner' = ReleasedLock(c)
                     /\ rlPc' = [rlPc EXCEPT ![c] = "idle"]
                     /\ returned' = Remember(Append(returned, 0), period, max_requests)
           ELSE /\ requests' = Append(kept, 0)
                /\ sleepLeft' = 0
                /\ lockOwner' = ReleasedLock(c)
                /\ rlPc' = [rlPc EXCEPT ![c] = "idle"]
                /\ returned' = Remember(Append(returned, 0), period, max_requests)
    /\ UNCHANGED <<max_requests, period>>
    /\ UNCHANGED <<apiVars, botVars, dispVars, filterVars>>

\* lines 31-33 after the sleep: pop the oldest, append the `now` of line 20, return
AcquireWake(c) ==
    /\ rlPc[c] = "sleeping"
    /\ lockOwner = c
    /\ sleepLeft = 0
    /\ requests' = Append(Tail(requests), nowAge)
    /\ lockOwner' = ReleasedLock(c)
    /\ rlPc' = [rlPc EXCEPT ![c] = "idle"]
    /\ returned' = Remember(Append(returned, 0), period, max_requests)
    /\ UNCHANGED <<max_requests, period, lockWaiters, nowAge, sleepLeft>>
    /\ UNCHANGED <<apiVars, botVars, dispVars, filterVars>>

\* the event loop's clock advances by one unit
Tick ==
    /\ requests' = Aged(requests, period)
    /\ returned' = Remember(Aged(returned, period), period, max_requests)
    /\ nowAge' = IF lockOwner = NoCaller THEN 0 ELSE Min(nowAge + 1, period)
    /\ sleepLeft' = Max(sleepLeft - 1, 0)
    /\ UNCHANGED <<max_requests, period, lockOwner, lockWaiters, rlPc>>
    /\ UNCHANGED <<apiVars, botVars, dispVars, filterVars>>

NextRateLimiter ==
    \/ \E c \in Callers : AcquireCall(c)
    \/ \E c \in Callers : AcquireEnter(c)
    \/ \E c \in Callers : AcquireWake(c)
    \/ Tick


\* ------------------------------------------------- VKgramBot._api_call

\* retries = 3, the default every caller in the repository uses
Retries == 3

\* largest cursor value ts the server returns
MaxTs == 2


\* the session keys the server may hand out
Keys == {1}

TsValues == 1..MaxTs

\* None
None == 0

\* the one long-poll server URL
ServerUrl == 1

\* what one HTTP POST of _api_call can come back with
ApiOutcomes == {"exception", "rate_limit", "api_error", "empty", "ok"}

\* data['response'] of a successful call, by caller
ApiResponses(caller) ==
    IF caller = "setup"
    THEN {<<ServerUrl, k, t>> : k \in Keys, t \in TsValues}
    ELSE {<<1>>}

InitApi ==
    /\ apiPc = "idle"
    /\ apiCaller = "none"
    /\ apiAttempt = 0
    /\ apiLog = <<>>
    /\ apiResult = <<>>

\* lines 92-98: entering _api_call on behalf of `caller`
ApiEnter(caller) ==
    /\ apiPc = "idle"
    /\ apiCaller' = caller
    /\ apiAttempt' = 0
    /\ apiLog' = <<>>
    /\ apiResult' = <<>>
    /\ apiPc' = IF Retries > 0 THEN "attempt" ELSE "done"

\* line 106: asyncio.sleep(0.34 * (attempt + 1)), in hundredths
RateLimitSleep(attempt) == 34 * (attempt + 1)

\* line 117: asyncio.sleep(0.5 * (attempt + 1)), in hundredths
ErrorSleep(attempt) == 50 * (attempt + 1)

\* what an attempt does before its POST (line 98-100): nothing; in particular
\* the module-level rate_limiter of utils.py is not acquired
BeforePost == <<>>

\* line 100: session.post(url, data=params)
ApiPostStep ==
    /\ apiPc = "attempt"
    /\ apiLog' = apiLog \o BeforePost \o << <<"post">> >>
    /\ apiPc' = "await"
    /\ UNCHANGED <<apiCaller, apiAttempt, apiResult>>

\* the loop of line 98 never runs out of attempts
ApiNextAttemptUnbounded(attempt) == "attempt"

\* the next loop iteration of line 98, or line 119 when the range is exhausted
ApiNextAttempt(attempt) == IF attempt + 1 < Retries THEN "attempt" ELSE "done"

\* every API error is retried like a rate limit
RetriedAnyError(outcome) == outcome \in {"rate_limit", "api_error"}

\* line 105: error.get('error_code') == 6 backs off and retries
Retried(outcome) == outcome = "rate_limit"

\* lines 101-119: the response (or exception) of the POST is handled
ApiRespondStep(outcome, response) ==
    /\ apiPc = "await"
    /\ LET logged == Append(apiLog, <<"resp", outcome>>)
       IN  CASE outcome = "ok" ->
                  /\ apiResult' = response
                  /\ apiPc' = "done"
                  /\ apiLog' = logged
                  /\ UNCHANGED apiAttempt
             [] Retried(outcome) ->
                  /\ apiLog' = Append(logged, <<"sleep", RateLimitSleep(apiAttempt)>>)
                  /\ apiAttempt' = apiAttempt + 1
                  /\ apiPc' = ApiNextAttempt(apiAttempt)
                  /\ apiResult' = <<>>
             [] outcome \in {"empty", "api_error"} /\ ~Retried(outcome) ->
                  /\ apiResult' = <<>>
                  /\ apiPc' = "done"
                  /\ apiLog' = logged
                  /\ UNCHANGED apiAttempt
             [] outcome = "exception" ->
                  /\ apiLog' = IF apiAttempt < Retries - 1
                               THEN Append(logged, <<"sleep", ErrorSleep(apiAttempt)>>)
                               ELSE logged
                  /\ apiAttempt' = apiAttempt + 1
                  /\ apiPc' = ApiNextAttempt(apiAttempt)
                  /\ apiResult' = <<>>
    /\ UNCHANGED apiCaller

\* the POSTs, the responses and the sleeps of the call so far
LogOf(kind) == SelectSeq(apiLog, LAMBDA e : e[1] = kind)

\* what is left of the call: two steps per remaining attempt
ApiMeasure ==
    CASE apiPc = "attempt" -> 2 * (Retries - apiAttempt)
      [] apiPc = "await" -> 2 * (Retries - apiAttempt) - 1
      [] OTHER -> 0

\* ------------------------------------------------------------ VKgramBot

\* number of worker tasks (self.workers)
NWorkers == 2

\* capacity of update_queue (stands for maxsize=1000)
QueueCap == 2

\* longest batch of updates one long-poll response carries
MaxBatch == 2

\* asyncio.sleep(1) after a long-poll error
PollBackoff == 1

\* consecutive long-poll errors counted (the count saturates here)
MaxErrors == 2


Workers == 1..NWorkers

\* a raw update: a well-formed message_new, or a message_new whose message
\* object does not fit Message(**...)
UpdateKinds == {"message_new", "malformed"}

NoUpdate == "none"

RECURSIVE SeqsUpTo(_, _)
SeqsUpTo(S, n) ==
    IF n = 0 THEN {<<>>}
    ELSE LET shorter == SeqsUpTo(S, n - 1)
         IN  shorter \cup {Append(s, x) : s \in {t \in shorter : Len(t) = n - 1}, x \in S}

Batches == SeqsUpTo(UpdateKinds, MaxBatch)

\* `failed` codes of the long-poll protocol
FailedCodes == {1, 2, 3}

NoResp == [kind |-> "none", ts |-> None, failed |-> None, updates |-> <<>>]

\* what a long-poll GET can come back with: {ts, updates}, {failed[, ts]},
\* or a transport-level exception
PollResponses ==
    {[kind |-> "success", ts |-> t, failed |-> None, updates |-> b] :
        t \in TsValues, b \in Batches}
    \cup {[kind |-> "failed", ts |-> t, failed |-> c, updates |-> <<>>] :
        t \in TsValues \cup {None}, c \in FailedCodes}
    \cup {[kind |-> "error", ts |-> None, failed |-> None, updates |-> <<>>]}

InitBot ==
    /\ botPc = "init"
    /\ session = "none"
    /\ lp_server = None
    /\ lp_key = None
    /\ lp_ts = None
    /\ pollPc = "off"
    /\ fetchReq = <<>>
    /\ resp = NoResp
    /\ lastKind = "none"
    /\ lastTs = None
    /\ dropped = 0
    /\ pollSleep = 0
    /\ consecErrors = 0
    /\ update_queue = <<>>
    /\ workerPc = [w \in Workers |-> "off"]
    /\ workerUpd = [w \in Workers |-> NoUpdate]
    /\ workerFault = [w \in Workers |-> FALSE]
    /\ lastFailed = None
    /\ negotiations = 0

\* run() line 163 -> start() lines 58-61: open the session, call
\* _setup_long_poll, which enters _api_call("groups.getLongPollServer")
Start ==
    /\ botPc = "init"
    /\ botPc' = "setup"
    /\ session' = "open"
    /\ ApiEnter("setup")
    /\ UNCHANGED <<lp_server, lp_key, lp_ts, pollPc, fetchReq, resp, lastKind,
                   lastTs, dropped, pollSleep, consecErrors, update_queue, workerPc, workerUpd>>
    /\ negotiations' = negotiations + 1
    /\ UNCHANGED <<workerFault, lastFailed>>
    /\ UNCHANGED <<rlVars, dispVars, filterVars>>

ApiPost ==
    /\ ApiPostStep
    /\ UNCHANGED <<rlVars, botVars, dispVars, filterVars>>

ApiRespond ==
    /\ \E outcome \in ApiOutcomes :
         \E response \in ApiResponses(apiCaller) :
            ApiRespondStep(outcome, response)
    /\ UNCHANGED <<rlVars, botVars, dispVars, filterVars>>

\* the truthiness test of line 78 left out
SetupOkAlways(response) == TRUE

\* line 78: `if response:`
SetupOk(response) == response # <<>>

\* _setup_long_poll lines 78-83, start() lines 61-64, run() lines 163-165 and
\* _start_long_poll lines 174-177: on a session, store it and create the
\* workers; otherwise start() raises out of run() (line 163 is outside the try)
SetupReturn ==
    /\ botPc = "setup"
    /\ apiPc = "done" /\ apiCaller = "setup"
    /\ apiPc' = "idle"
    /\ apiCaller' = "none"
    /\ apiAttempt' = 0
    /\ apiLog' = <<>>
    /\ apiResult' = <<>>
    /\ IF SetupOk(apiResult)
       THEN /\ lp_server' = IF apiResult = <<>> THEN None ELSE apiResult[1]
            /\ lp_key' = IF apiResult = <<>> THEN None ELSE apiResult[2]
            /\ lp_ts' = IF apiResult = <<>> THEN None ELSE apiResult[3]
            /\ botPc' = "polling"
            /\ pollPc' = "fetch"
            /\ workerPc' = [w \in Workers |-> "get"]
       ELSE /\ botPc' = "raised"
            /\ UNCHANGED <<lp_server, lp_key, lp_ts, pollPc, workerPc>>
    /\ UNCHANGED <<session, fetchReq, resp, lastKind, lastTs, dropped, pollSleep,
                   consecErrors, update_queue, workerUpd>>
    /\ UNCHANGED <<workerFault, lastFailed, negotiations>>
    /\ UNCHANGED <<rlVars, dispVars, filterVars>>

\* lines 193-195: the long-poll GET is issued with the current session
FetchIssue ==
    /\ pollPc = "fetch"
    /\ pollPc' = "await"
    /\ fetchReq' = <<lp_server, lp_key, lp_ts>>
    /\ UNCHANGED <<botPc, session, lp_server, lp_key, lp_ts, resp, lastKind,
                   lastTs, dropped, pollSleep, consecErrors, update_queue,
                   workerPc, workerUpd>>
    /\ lastFailed' = None
    /\ UNCHANGED <<workerFault, negotiations>>
    /\ UNCHANGED <<rlVars, apiVars, dispVars, filterVars>>

\* lines 195-196: the GET and response.json() complete, or raise
FetchRespond ==
    /\ pollPc = "await"
    /\ resp' \in PollResponses
    /\ pollPc' = "handle"
    /\ lastKind' = "none"
    /\ lastTs' = None
    /\ dropped' = 0
    /\ UNCHANGED <<botPc, session, lp_server, lp_key, lp_ts, fetchReq, pollSleep,
                   consecErrors, update_queue, workerPc, workerUpd>>
    /\ UNCHANGED <<workerFault, lastFailed, negotiations>>
    /\ UNCHANGED <<rlVars, apiVars, dispVars, filterVars>>

\* the queue after the whole batch is appended whatever the capacity
EnqueuedUnbounded(q, batch, cap) == q \o batch

\* lines 204-208: put_nowait each update until QueueFull, then break
Enqueued(q, batch, cap) ==
    q \o SubSeq(batch, 1, Min(Len(batch), cap - Len(q)))

\* the cursor is left as it was
CursorKept(old, ts) == old

\* line 202: self.lp_ts = data['ts']
CursorAfterSuccess(old, ts) == ts

\* line 212: asyncio.sleep(1), whatever the number of failures so far
BackoffSleep(n) == PollBackoff

\* the poll loop gives up after an error
AfterErrorStop == "stopped"

\* lines 210-212 and 181: the error is caught, the loop sleeps and goes on
AfterError == "backoff"

\* lines 198-212: the response is handled.  A `failed` response calls
\* self._handle_failure, which VKgramBot does not define: the AttributeError
\* is caught at line 210 like any other exception
FetchHandle ==
    /\ pollPc = "handle"
    /\ resp' = NoResp
    /\ lastKind' = resp.kind
    /\ lastTs' = resp.ts
    /\ IF resp.kind = "success"
       THEN /\ lp_ts' = CursorAfterSuccess(lp_ts, resp.ts)
            /\ update_queue' = Enqueued(update_queue, resp.updates, QueueCap)
            /\ dropped' = Len(update_queue) + Len(resp.updates) - Len(update_queue')
            /\ pollPc' = "fetch"
            /\ consecErrors' = 0
            /\ UNCHANGED pollSleep
       ELSE /\ pollPc' = AfterError
            /\ pollSleep' = BackoffSleep(consecErrors)
            /\ consecErrors' = IF resp.kind = "error"
                               THEN Min(consecErrors + 1, MaxErrors)
                               ELSE 0
            /\ UNCHANGED <<lp_ts, update_queue, dropped>>
    /\ UNCHANGED <<botPc, session, lp_server, lp_key, fetchReq, workerPc, workerUpd>>
    /\ lastFailed' = resp.failed
    /\ UNCHANGED <<workerFault, negotiations>>
    /\ UNCHANGED <<rlVars, apiVars, dispVars, filterVars>>

\* line 212 returns, line 181 loops
BackoffDone ==
    /\ pollPc = "backoff"
    /\ pollPc' = "fetch"
    /\ pollSleep' = 0
    /\ UNCHANGED <<botPc, session, lp_server, lp_key, lp_ts, fetchReq, resp,
                   lastKind, lastTs, dropped, consecErrors, update_queue, workerPc, workerUpd>>
    /\ UNCHANGED <<workerFault, lastFailed, negotiations>>
    /\ UNCHANGED <<rlVars, apiVars, dispVars, filterVars>>

\* the update handed out stays at the head of the queue
AfterGetKept(q) == q

\* asyncio.Queue.get (line 218) removes the oldest item and returns it
AfterGet(q) == Tail(q)

\* line 218: update = await self.update_queue.get()
WorkerGet(w) ==
    /\ workerPc[w] = "get"
    /\ update_queue # <<>>
    /\ workerUpd' = [workerUpd EXCEPT ![w] = Head(update_queue)]
    /\ update_queue' = AfterGet(update_queue)
    /\ workerPc' = [workerPc EXCEPT ![w] = "busy"]
    /\ UNCHANGED <<botPc, session, lp_server, lp_key, lp_ts, pollPc, fetchReq,
                   resp, lastKind, lastTs, dropped, pollSleep, consecErrors>>
    /\ workerFault' = [workerFault EXCEPT ![w] = FALSE]
    /\ UNCHANGED <<lastFailed, negotiations>>
    /\ UNCHANGED <<rlVars, apiVars, dispVars, filterVars>>

\* process_update raises for an update whose message object does not fit
\* Message(**...) (bot.py:250); a callback's exception never leaves it
DispatchRaises(u) == u = "malformed"

\* the exception ends the worker task
AfterDispatchFaultDead == "dead"

\* lines 221-222 and 216: the exception is caught and logged, the worker loops
AfterDispatchFault == "get"

\* lines 219-222: process_update returns (task_done) or raises (caught and
\* logged at line 221); either way the worker loops
WorkerDispatch(w) ==
    /\ workerPc[w] = "busy"
    /\ workerUpd' = [workerUpd EXCEPT ![w] = NoUpdate]
    /\ workerFault' = [workerFault EXCEPT ![w] = DispatchRaises(workerUpd[w])]
    /\ workerPc' = [workerPc EXCEPT ![w] =
                       IF DispatchRaises(workerUpd[w]) THEN AfterDispatchFault ELSE "get"]
    /\ UNCHANGED <<botPc, session, lp_server, lp_key, lp_ts, pollPc, fetchReq,
                   resp, lastKind, lastTs, dropped, pollSleep, consecErrors,
                   update_queue, lastFailed, negotiations>>
    /\ UNCHANGED <<rlVars, apiVars, dispVars, filterVars>>

\* `except Exception` of line 210 swallows the CancelledError like any error
AfterCancelSwallowed == "backoff"

\* the CancelledError passes `except Exception` (line 210) and ends the
\* `while True` at line 183
AfterCancel == "stopped"

\* the task running run() is cancelled: CancelledError surfaces at the poll
\* loop's pending await (lines 195-196 or 212), passes `except Exception`,
\* is caught at line 183; lines 186-188 cancel the workers, each of which
\* gets CancelledError at its own pending await: queue.get() of line 218, or
\* inside process_update (line 219), which it cuts short; run() line 169
\* closes the session
Cancel ==
    /\ botPc = "polling"
    /\ pollPc \in {"await", "backoff"}
    /\ pollPc' = AfterCancel
    /\ botPc' = "stopped"
    /\ session' = "closed"
    /\ workerPc' = [w \in Workers |->
                       IF workerPc[w] = "busy" THEN "interrupted" ELSE "cancelled"]
    /\ UNCHANGED <<lp_server, lp_key, lp_ts, fetchReq, resp, lastKind, lastTs,
                   dropped, pollSleep, consecErrors, update_queue, workerUpd>>
    /\ UNCHANGED <<workerFault, lastFailed, negotiations>>
    /\ UNCHANGED <<rlVars, apiVars, dispVars, filterVars>>

NextBot ==
    \/ Start
    \/ ApiPost
    \/ ApiRespond
    \/ SetupReturn
    \/ FetchIssue
    \/ FetchRespond
    \/ FetchHandle
    \/ BackoffDone
    \/ \E w \in Workers : WorkerGet(w)
    \/ \E w \in Workers : WorkerDispatch(w)
    \/ Cancel


\* ----------------------------------------------------------- Dispatcher

\* most message handlers registered
MaxHandlers == 2

\* most event handlers registered
MaxEventHandlers == 1

\* Message records, by the two fields the modelled filters read
Messages == {[from_id |-> 1, peer_id |-> 1], [from_id |-> 2, peer_id |-> 1]}

NoMessage == [from_id |-> None, peer_id |-> None]

EventTypes == {"message_new", "group_join"}

\* raw updates: message_new with a message object that fits Message(**...),
\* message_new with one that does not, and another event type
Updates ==
    {[type |-> "message_new", wellformed |-> TRUE, message |-> m] : m \in Messages}
    \cup {[type |-> "message_new", wellformed |-> FALSE, message |-> NoMessage]}
    \cup {[type |-> "group_join", wellformed |-> TRUE, message |-> NoMessage]}

NoDispatch == [type |-> "none", wellformed |-> TRUE, message |-> NoMessage]

\* ChatTypeFilter("private"), ChatTypeFilter("group"), ChatTypeFilter of any
\* other name, StateFilter
FilterKinds == {"chat_private", "chat_group", "chat_other", "state"}

\* Filter.check of filters.py for a Message
FilterCheck(f, m) ==
    CASE f = "chat_private" -> m.peer_id = m.from_id
      [] f = "chat_group" -> m.peer_id # m.from_id
      [] f = "chat_other" -> FALSE
      [] f = "state" -> TRUE

\* the filter tuples handlers are registered with
FilterLists == {<<>>, <<"chat_other">>, <<"state", "chat_group">>}

\* Handler.check: every filter of the list checks true
HandlerCheck(m, filters) == \A i \in 1..Len(filters) : FilterCheck(filters[i], m)

\* Dispatcher._check_filters: `return True`, the filters are not consulted
CheckFilters(m, filters) == TRUE

\* what awaiting a callback can do: return, raise an Exception, or call
\* bot.send_message and then return
CallbackOutcomes == {"return", "raise", "send"}

Range(s) == {s[i] : i \in 1..Len(s)}

Count(s, x) == Cardinality({i \in 1..Len(s) : s[i] = x})

InitDispatch ==
    /\ message_handlers = <<>>
    /\ event_handlers = [t \in EventTypes |-> <<>>]
    /\ dPc = "idle"
    /\ dUpdate = NoDispatch
    /\ dIdx = 0
    /\ invoked = <<>>
    /\ faulted = {}
    /\ tasks = <<>>
    /\ decorated = {}

\* the functions of the application that the package-level decorator is
\* applied to, written without filters
DecoratedFunctions == {MaxHandlers + 1}

\* handlers.message_handler: the function gets a `_handler` attribute and is
\* returned; no Dispatcher or HandlerManager is touched
Decorate(f) ==
    /\ dPc = "idle"
    /\ f \notin decorated
    /\ decorated' = decorated \cup {f}
    /\ UNCHANGED <<message_handlers, event_handlers, dPc, dUpdate, dIdx, invoked,
                   faulted, tasks>>
    /\ UNCHANGED <<rlVars, apiVars, botVars, filterVars>>

\* register_message_handler, through the bot.message_handler decorator
RegisterMessageHandler(filters) ==
    /\ dPc = "idle"
    /\ Len(message_handlers) < MaxHandlers
    /\ message_handlers' =
         Append(message_handlers, [cb |-> Len(message_handlers) + 1, filters |-> filters])
    /\ UNCHANGED <<event_handlers, dPc, dUpdate, dIdx, invoked, faulted, tasks, decorated>>
    /\ UNCHANGED <<rlVars, apiVars, botVars, filterVars>>

\* register_event_handler, through the bot.event_handler decorator
RegisterEventHandler(t) ==
    /\ dPc = "idle"
    /\ Len(event_handlers["message_new"]) + Len(event_handlers["group_join"]) < MaxEventHandlers
    /\ event_handlers' = [event_handlers EXCEPT ![t] = Append(@, Len(@) + 1)]
    /\ UNCHANGED <<message_handlers, dPc, dUpdate, dIdx, invoked, faulted, tasks, decorated>>
    /\ UNCHANGED <<rlVars, apiVars, botVars, filterVars>>

\* line 255: the loop over message_handlers is at position i of n
LoopPc(i, n) == IF i <= n THEN "handlers" ELSE "done"

\* process_update lines 241-251 up to the first callback: a task per event
\* handler of the type, then for message_new the Message is built (which
\* raises on a malformed object) and _process_message starts
ProcessUpdate(u) ==
    /\ dPc = "idle"
    /\ dUpdate' = u
    /\ tasks' = [i \in 1..Len(event_handlers[u.type]) |->
                    <<event_handlers[u.type][i], "pending">>]
    /\ invoked' = <<>>
    /\ faulted' = {}
    /\ IF u.type = "message_new"
       THEN IF u.wellformed
            THEN /\ dIdx' = 1
                 /\ dPc' = LoopPc(1, Len(message_handlers))
            ELSE /\ dIdx' = 0
                 /\ dPc' = "raised"
       ELSE /\ dIdx' = 0
            /\ dPc' = "done"
    /\ UNCHANGED <<message_handlers, event_handlers, decorated>>
    /\ UNCHANGED <<rlVars, apiVars, botVars, filterVars>>

\* no try/except around the callback: the exception leaves process_update
HandlerFaultPropagates(next) == "raised"

\* the loop ends with the first callback that was called
FirstMatchOnly(next) == "done"

\* lines 255-259: no break or return follows the awaited callback, the `for`
\* goes on to the next registered handler
AfterMatch(next) == next

\* lines 260-261: the callback's exception is caught and logged, the loop goes on
HandlerFaultPc(next) == next

\* lines 255-261, one iteration: _check_filters, then the awaited callback
HandlerStep(outcome) ==
    /\ dPc = "handlers"
    /\ LET h == message_handlers[dIdx]
           next == LoopPc(dIdx + 1, Len(message_handlers))
       IN  IF CheckFilters(dUpdate.message, h.filters)
           THEN /\ invoked' = Append(invoked, h.cb)
                /\ CASE outcome = "return" ->
                          /\ dPc' = AfterMatch(next)
                          /\ dIdx' = dIdx + 1
                          /\ UNCHANGED <<faulted, apiVars>>
                     [] outcome = "raise" ->
                          /\ faulted' = faulted \cup {dIdx}
                          /\ dPc' = HandlerFaultPc(next)
                          /\ dIdx' = dIdx + 1
                          /\ UNCHANGED apiVars
                     [] outcome = "send" ->
                          /\ ApiEnter("send")
                          /\ dPc' = "sending"
                          /\ UNCHANGED <<dIdx, faulted>>
           ELSE /\ outcome = "return"
                /\ dPc' = next
                /\ dIdx' = dIdx + 1
                /\ UNCHANGED <<invoked, faulted, apiVars>>
    /\ UNCHANGED <<message_handlers, event_handlers, dUpdate, tasks, decorated>>
    /\ UNCHANGED <<rlVars, botVars, filterVars>>

\* send_message lines 140-141 return to the callback, which returns
SendReturn ==
    /\ dPc = "sending"
    /\ apiPc = "done" /\ apiCaller = "send"
    /\ apiPc' = "idle"
    /\ apiCaller' = "none"
    /\ apiAttempt' = 0
    /\ apiLog' = <<>>
    /\ apiResult' = <<>>
    /\ dPc' = AfterMatch(LoopPc(dIdx + 1, Len(message_handlers)))
    /\ dIdx' = dIdx + 1
    /\ UNCHANGED <<message_handlers, event_handlers, dUpdate, invoked, faulted, tasks, decorated>>
    /\ UNCHANGED <<rlVars, botVars, filterVars>>

\* the event loop starts the tasks created at line 246 in creation order
\* (its ready queue is FIFO): the event handler is called
TaskStart(i) ==
    /\ dPc # "idle"
    /\ i \in 1..Len(tasks)
    /\ tasks[i][2] = "pending"
    /\ \A j \in 1..(i - 1) : tasks[j][2] # "pending"
    /\ tasks' = [tasks EXCEPT ![i] = <<tasks[i][1], "started">>]
    /\ UNCHANGED <<message_handlers, event_handlers, dPc, dUpdate, dIdx, invoked, faulted, decorated>>
    /\ UNCHANGED <<rlVars, apiVars, botVars, filterVars>>

\* a started task runs its event handler to the end; an exception stays in
\* the task
TaskRun(i, outcome) ==
    /\ dPc # "idle"
    /\ i \in 1..Len(tasks)
    /\ tasks[i][2] = "started"
    /\ tasks' = [tasks EXCEPT ![i] = <<tasks[i][1], outcome>>]
    /\ UNCHANGED <<message_handlers, event_handlers, dPc, dUpdate, dIdx, invoked, faulted, decorated>>
    /\ UNCHANGED <<rlVars, apiVars, botVars, filterVars>>

\* process_update is over: it returned to line 220 of the worker, or raised
\* into line 221
ProcessUpdateReturn ==
    /\ dPc \in {"done", "raised"}
    /\ dPc' = "idle"
    /\ dUpdate' = NoDispatch
    /\ dIdx' = 0
    /\ invoked' = <<>>
    /\ faulted' = {}
    /\ tasks' = <<>>
    /\ UNCHANGED <<message_handlers, event_handlers, decorated>>
    /\ UNCHANGED <<rlVars, apiVars, botVars, filterVars>>

NextDispatch ==
    \/ \E f \in DecoratedFunctions : Decorate(f)
    \/ \E fl \in FilterLists : RegisterMessageHandler(fl)
    \/ \E t \in EventTypes : RegisterEventHandler(t)
    \/ \E u \in Updates : ProcessUpdate(u)
    \/ \E outcome \in CallbackOutcomes : HandlerStep(outcome)
    \/ ApiPost
    \/ ApiRespond
    \/ SendReturn
    \/ \E i \in 1..MaxEventHandlers : TaskStart(i)
    \/ \E i \in 1..MaxEventHandlers : \E outcome \in {"ok", "raised"} : TaskRun(i, outcome)
    \/ ProcessUpdateReturn

\* ------------------------------------------------- composite filters

\* most child filters of one AndFilter / OrFilter
MaxChildren == 4

ChildLists == SeqsUpTo(BOOLEAN, MaxChildren)

\* bool rendered for cResult
BoolStr(b) == IF b THEN "true" ELSE "false"

\* a generator expression whose element expression holds an `await` is an
\* asynchronous generator object
AwaitingGenExp == "async_generator"

\* builtin all(iterable): an asynchronous generator is not iterable
AllOf(it, values) ==
    IF it = "async_generator"
    THEN "TypeError"
    ELSE BoolStr(\A i \in 1..Len(values) : values[i])

\* builtin any(iterable)
AnyOf(it, values) ==
    IF it = "async_generator"
    THEN "TypeError"
    ELSE BoolStr(\E i \in 1..Len(values) : values[i])

\* AndFilter.check: all(await f.check(...) for f in self.filters)
AndFilterCheck(children) == AllOf(AwaitingGenExp, children)

\* OrFilter.check: any(await f.check(...) for f in self.filters)
OrFilterCheck(children) == AnyOf(AwaitingGenExp, children)

\* NotFilter.check: not await self.filter.check(...)
NotFilterCheck(children) == BoolStr(~children[1])

\* no composite filter is checked: Dispatcher._check_filters consults none
InitFilterIdle ==
    /\ cKind = "none"
    /\ cChildren = <<>>
    /\ cResult = "none"

\* a composite built over child filters with any check results; NotFilter
\* takes exactly one child
InitFilter ==
    /\ cKind \in {"and", "or", "not"}
    /\ cChildren \in ChildLists
    /\ cKind = "not" => Len(cChildren) = 1
    /\ cResult = "none"

\* await composite.check(update, bot)
CompositeCheck ==
    /\ cKind # "none"
    /\ cResult = "none"
    /\ cResult' = CASE cKind = "and" -> AndFilterCheck(cChildren)
                    [] cKind = "or" -> OrFilterCheck(cChildren)
                    [] cKind = "not" -> NotFilterCheck(cChildren)
    /\ UNCHANGED <<cKind, cChildren>>
    /\ UNCHANGED <<rlVars, apiVars, botVars, dispVars>>

NextFilter == CompositeCheck

\* ------------------------------------------------------- specifications

InitRL == InitRateLimiter /\ InitApi /\ InitBot /\ InitDispatch /\ InitFilterIdle

NextRL == NextRateLimiter

SpecRL == InitRL /\ [][NextRL]_vars

\* the module-level rate_limiter, idle: nothing in bot.py touches it
InitRateLimiterIdle ==
    /\ max_requests = MaxMaxRequests
    /\ period = 1
    /\ requests = <<>>
    /\ lockOwner = NoCaller
    /\ lockWaiters = <<>>
    /\ rlPc = [c \in Callers |-> "idle"]
    /\ nowAge = 0
    /\ sleepLeft = 0
    /\ returned = <<>>

InitBotSpec == InitRateLimiterIdle /\ InitApi /\ InitBot /\ InitDispatch /\ InitFilterIdle

SpecBot == InitBotSpec /\ [][NextBot]_vars

SpecDispatch == InitBotSpec /\ [][NextDispatch]_vars

InitFilterSpec == InitRateLimiterIdle /\ InitApi /\ InitBot /\ InitDispatch /\ InitFilter

SpecFilter == InitFilterSpec /\ [][NextFilter]_vars

\* the asyncio loop runs every ready task and its clock keeps advancing
FairSpecRL ==
    /\ SpecRL
    /\ WF_vars(Tick)
    /\ \A c \in Callers : WF_vars(AcquireEnter(c)) /\ WF_vars(AcquireWake(c))

\* C1: every window of length period holds at most max_requests returns of
\* acquire(): at any instant the returns younger than period number at most
\* max_requests.
C1_SlidingWindowBound ==
    Len(SelectSeq(returned, LAMBDA a : a < period)) <= max_requests

\* C2: with max_requests >= 1 and a fair scheduler, every caller that has
\* invoked acquire() eventually returns from it.
C2_NoStarvation ==
    \A c \in Callers : (rlPc[c] = "waiting") ~> (rlPc[c] = "idle")

\* C2 witness: a caller sleeps inside the lock while every other caller is
\* queued behind it
C2_Witness ==
    \E c \in Callers :
        /\ rlPc[c] = "sleeping"
        /\ Len(lockWaiters) = NCallers - 1

\* C3: every HTTP POST issued by _api_call is preceded, for that attempt, by a
\* completed RateLimiter.acquire(): in the call's outbound path every "post"
\* directly follows an "acquire".
C3_PostsRateLimited ==
    \A i \in 1..Len(apiLog) :
        apiLog[i][1] = "post" => (i > 1 /\ apiLog[i - 1][1] = "acquire")

\* C6: after a success response carrying ts = v has been handled, the next
\* long-poll GET the loop issues uses ts = v.
C6_CursorTracksServer ==
    (pollPc = "await" /\ lastKind = "success") => fetchReq[3] = lastTs

\* C6 witness: the next GET is out after a success whose batch was partly
\* dropped
C6_Witness ==
    /\ pollPc = "await"
    /\ lastKind = "success"
    /\ dropped > 0
    /\ fetchReq[3] = lastTs

\* C7: after a `failed` response carrying a fresh ts has been handled, the
\* next long-poll GET the loop issues uses that fresh ts.
C7_CursorResyncOnFailed ==
    (pollPc = "await" /\ lastKind = "failed" /\ lastTs # None) => fetchReq[3] = lastTs

\* C8: the update queue never holds more than its capacity; handling a
\* success response appends the longest prefix of the batch that fits, drops
\* the rest, and leaves the poll loop at its next fetch.
C8_QueueSaturation ==
    /\ [](Len(update_queue) <= QueueCap)
    /\ [][(pollPc = "handle" /\ resp.kind = "success" /\ pollPc' # "handle") =>
            /\ pollPc' = "fetch"
            /\ Len(update_queue') = Min(QueueCap, Len(update_queue) + Len(resp.updates))
            /\ update_queue' =
                 SubSeq(update_queue \o resp.updates, 1, Len(update_queue'))]_vars

\* C8 witness: a batch met a full queue, part of it was dropped, and the
\* next GET has been issued
C8_Witness ==
    /\ pollPc = "await"
    /\ lastKind = "success"
    /\ dropped > 0
    /\ Len(update_queue) = QueueCap

\* C9: when negotiation yields no session, start() raises out of run(), no
\* worker is started and no long-poll GET is ever issued; and no GET is issued
\* before server, key and ts have been set by a successful negotiation.
C9_StartupFailureFatal ==
    /\ [](botPc = "raised" =>
            /\ \A w \in Workers : workerPc[w] = "off"
            /\ pollPc = "off"
            /\ fetchReq = <<>>)
    /\ []((fetchReq # <<>> \/ pollPc # "off" \/ \E w \in Workers : workerPc[w] # "off") =>
            /\ lp_server # None
            /\ lp_key # None
            /\ lp_ts # None)
    /\ [][(botPc = "setup" /\ apiPc = "done" /\ apiResult = <<>> /\ botPc' # "setup") =>
            botPc' = "raised"]_vars

\* C9 witness: every attempt of the negotiation call failed and run() raised
C9_Witness ==
    /\ botPc = "raised"
    /\ session = "open"

\* C10: a long-poll fetch that raises a transport error leaves server, key,
\* cursor and queue as they were and puts the loop into the fixed backoff;
\* the backoff ends in the next fetch; the loop is never stuck or finished in
\* between, however many fetches failed in a row.
C10_TransientErrorsRetried ==
    /\ [][(pollPc = "handle" /\ resp.kind = "error" /\ pollPc' # "handle") =>
            /\ pollPc' = "backoff"
            /\ pollSleep' = PollBackoff
            /\ UNCHANGED <<lp_server, lp_key, lp_ts, update_queue>>]_vars
    /\ [][(pollPc = "backoff" /\ pollPc' # "backoff") =>
            (pollPc' = "fetch" \/ botPc' = "stopped")]_vars
    /\ [](pollPc = "backoff" => ENABLED BackoffDone)
    /\ [](pollPc = "fetch" => ENABLED FetchIssue)

\* C10 witness: another GET is out after MaxErrors fetches failed in a row
C10_Witness ==
    /\ pollPc = "await"
    /\ consecErrors = MaxErrors

\* C4: when process_update has handled a message_new update, each registered
\* message handler's callback was invoked exactly once if every filter of its
\* list checks true for the message, and not at all otherwise.
C4_FilterGatedDispatch ==
    (dPc = "done" /\ dUpdate.type = "message_new") =>
        \A i \in 1..Len(message_handlers) :
            Count(invoked, message_handlers[i].cb) =
                IF HandlerCheck(dUpdate.message, message_handlers[i].filters) THEN 1 ELSE 0

\* C5: a raising callback does not end process_update with an exception, and
\* every handler registered after it that passes the dispatcher's filter check
\* is still invoked.
C5_HandlerFaultIsolation ==
    /\ dPc = "raised" => (faulted = {} /\ ~dUpdate.wellformed)
    /\ dPc = "done" =>
         \A i \in faulted :
            \A j \in (i + 1)..Len(message_handlers) :
                CheckFilters(dUpdate.message, message_handlers[j].filters) =>
                    message_handlers[j].cb \in Range(invoked)

\* C5 witness: the first callback raised, the second was invoked and
\* process_update returned normally
C5_Witness ==
    /\ dPc = "done"
    /\ 1 \in faulted
    /\ Len(message_handlers) >= 2
    /\ invoked = <<1, 2>>

\* C12: _api_call issues at most `retries` POSTs and terminates (every step
\* of a running call is enabled and lowers ApiMeasure); answered with
\* error_code 6 every time, it returns {} after exactly `retries` POSTs, the
\* k-th followed by a sleep of 0.34 * k, so the backoff grows.
C12_BoundedRetryBudget ==
    /\ [](Len(LogOf("post")) <= Retries)
    /\ []((apiPc = "done" /\ LogOf("resp") # <<>>
            /\ \A i \in 1..Len(LogOf("resp")) : LogOf("resp")[i][2] = "rate_limit") =>
            /\ Len(LogOf("post")) = Retries
            /\ apiResult = <<>>
            /\ Len(LogOf("sleep")) = Retries
            /\ \A k \in 1..Retries : LogOf("sleep")[k][2] = RateLimitSleep(k - 1)
            /\ \A k \in 1..(Retries - 1) : LogOf("sleep")[k][2] < LogOf("sleep")[k + 1][2])
    /\ [](apiPc = "attempt" => ENABLED ApiPost)
    /\ [](apiPc = "await" => ENABLED ApiRespond)
    /\ [][(apiPc \in {"attempt", "await"} /\ apiVars' # apiVars) =>
            ApiMeasure' < ApiMeasure]_vars

\* C12 witness: every attempt was answered with error_code 6 and the call
\* has returned
C12_Witness ==
    /\ apiPc = "done"
    /\ Len(LogOf("resp")) = Retries
    /\ \A i \in 1..Len(LogOf("resp")) : LogOf("resp")[i][2] = "rate_limit"
    /\ apiResult = <<>>

\* C19: a response whose error has a code other than 6 ends the call at once
\* with {}: it is the last thing the call did, whatever budget is left.
C19_ApiErrorsNotRetried ==
    \A i \in 1..Len(apiLog) :
        (apiLog[i][1] = "resp" /\ apiLog[i][2] = "api_error") =>
            /\ i = Len(apiLog)
            /\ apiPc = "done"
            /\ apiResult = <<>>

\* C19 witness: the first attempt got a non-rate-limit error and the call
\* returned with two attempts unused
C19_Witness ==
    /\ apiPc = "done"
    /\ apiLog = << <<"post">>, <<"resp", "api_error">> >>
    /\ apiAttempt = 0

\* C11: while the bot polls, every worker is alive; a worker whose dispatch
\* is over - also one that raised - is back at the queue and can take the
\* next update; the poll loop is never stuck.
C11_WorkerPoolSurvives ==
    /\ [](botPc = "polling" =>
            /\ \A w \in Workers : workerPc[w] \in {"get", "busy"}
            /\ pollPc \in {"fetch", "await", "handle", "backoff"})
    /\ [][\A w \in Workers :
            (workerPc[w] = "busy" /\ workerPc'[w] # "busy" /\ botPc' = "polling") =>
                workerPc'[w] = "get"]_vars
    /\ [](\A w \in Workers :
            (workerPc[w] = "get" /\ update_queue # <<>>) => ENABLED WorkerGet(w))
    /\ [](botPc = "polling" =>
            \/ ENABLED FetchIssue
            \/ ENABLED FetchRespond
            \/ ENABLED FetchHandle
            \/ ENABLED BackoffDone)

\* C11 witness: a worker whose dispatch raised is back at the queue with an
\* update it can take, while the poll loop has its next GET out
C11_Witness ==
    \E w \in Workers :
        /\ workerFault[w]
        /\ workerPc[w] = "get"
        /\ update_queue # <<>>
        /\ ENABLED WorkerGet(w)
        /\ pollPc = "await"
        /\ botPc = "polling"

\* C15: after the cancellation no worker takes an update from the queue, and
\* no dispatch that was in flight is cut short.
C15_GracefulShutdown ==
    /\ [](\A w \in Workers : workerPc[w] # "interrupted")
    /\ [][botPc = "stopped" => UNCHANGED <<update_queue, workerUpd>>]_vars

\* C16: once the poll loop has received the cancellation it is stopped and
\* stays stopped: no further GET is issued and nothing is enqueued.
C16_PollLoopStops ==
    /\ [](botPc = "stopped" => pollPc = "stopped")
    /\ [][pollPc = "stopped" =>
            /\ pollPc' = "stopped"
            /\ fetchReq' = fetchReq
            /\ update_queue' = update_queue]_vars

\* C16 witness: the loop was cancelled with a GET out and updates still queued
C16_Witness ==
    /\ pollPc = "stopped"
    /\ botPc = "stopped"
    /\ fetchReq # <<>>
    /\ update_queue # <<>>

\* C20: after a `failed` response whose code signals an expired key (2) or a
\* lost session (3), the negotiation call has been run again when the loop is about
\* to issue its next GET.
C20_ExpiryRenegotiates ==
    (pollPc = "fetch" /\ lastFailed \in {2, 3}) => negotiations > 1

\* C13: for one dispatched message the callbacks are invoked in registration
\* order, every handler whose filters all check true is invoked by the time
\* process_update returns, whatever earlier handlers did, and the tasks of
\* the event handlers start in registration order.
C13_RegistrationOrder ==
    /\ \A a, b \in 1..Len(invoked) : a < b => invoked[a] < invoked[b]
    /\ (dPc = "done" /\ dUpdate.type = "message_new") =>
         \A i \in 1..Len(message_handlers) :
            HandlerCheck(dUpdate.message, message_handlers[i].filters) =>
                message_handlers[i].cb \in Range(invoked)
    /\ \A i, j \in 1..Len(tasks) :
         (i < j /\ tasks[j][2] # "pending") => tasks[i][2] # "pending"

\* C13 witness: two handlers that both match the message were registered,
\* both returned, and they were invoked first-registered first
C13_Witness ==
    /\ dPc = "done"
    /\ Len(message_handlers) = 2
    /\ \A i \in 1..2 : HandlerCheck(dUpdate.message, message_handlers[i].filters)
    /\ faulted = {}
    /\ invoked = <<message_handlers[1].cb, message_handlers[2].cb>>

\* C14: no event-handler task is created for a message_new update.
C14_MessageBindingsDisjoint ==
    dUpdate.type = "message_new" => tasks = <<>>

\* C18: when a well-formed message_new update has been processed, every
\* function decorated with the package-level message_handler was invoked.
C18_DecoratorRegisters ==
    (dPc = "done" /\ dUpdate.type = "message_new" /\ dUpdate.wellformed) =>
        \A f \in decorated : f \in Range(invoked)

\* C17: the check of a composite filter returns a boolean: for AndFilter true
\* iff every child checks true, for OrFilter true iff some child checks true,
\* for NotFilter true iff its child checks false.
C17_CompositeTruthTables ==
    cResult # "none" =>
        cResult = CASE cKind = "and" -> BoolStr(\A i \in 1..Len(cChildren) : cChildren[i])
                    [] cKind = "or" -> BoolStr(\E i \in 1..Len(cChildren) : cChildren[i])
                    [] cKind = "not" -> BoolStr(~cChildren[1])

\* C22: the queue changes only by a worker taking its head or by the poll
\* loop appending a prefix of the fetched batch at its tail; a worker gets an
\* update only by such a take, and one take serves one worker. Hence the
\* updates taken, in take order, are a prefix of the updates enqueued.
C22_FifoHandOff ==
    [][\/ /\ update_queue' = update_queue
          /\ \A w \in Workers : workerUpd'[w] \in {workerUpd[w], NoUpdate}
       \/ /\ update_queue # <<>>
          /\ update_queue' = Tail(update_queue)
          /\ \E w \in Workers :
                /\ workerPc[w] = "get"
                /\ workerUpd'[w] = Head(update_queue)
                /\ \A v \in Workers \ {w} : workerUpd'[v] = workerUpd[v]
       \/ /\ pollPc = "handle"
          /\ workerUpd' = workerUpd
          /\ \E k \in 1..Len(resp.updates) :
                update_queue' = update_queue \o SubSeq(resp.updates, 1, k)]_vars

\* C22 witness: two workers hold the two updates they took, the first taken
\* being the older, and the loop has enqueued more behind them
C22_Witness ==
    /\ botPc = "polling"
    /\ \A w \in Workers : workerPc[w] = "busy"
    /\ update_queue # <<>>
    /\ \E w, v \in Workers : workerUpd[w] # workerUpd[v]

\* C23: the negotiation call of start() makes one request: while _api_call
\* runs for _setup_long_poll, at most one POST has been issued.
C23_NegotiationOneShot ==
    apiCaller = "setup" => Len(LogOf("post")) <= 1

\* C24: when run() is over, by returning or by raising, the session that
\* start() opened has been closed.
C24_SessionClosedOnExit ==
    botPc \in {"stopped", "raised"} => session = "closed"

\* C21: when process_update is over and its worker goes back to the queue,
\* every callback invoked for the update has finished.
C21_BoundedDispatchConcurrency ==
    dPc \in {"done", "raised"} =>
        \A i \in 1..Len(tasks) : tasks[i][2] \in {"ok", "raised"}

====
